---- MODULE Spec2Model ----
(***************************************************************************)
(* Model of src/src/perturb_proj_tree.py: the bounding sphere of a         *)
(* triangle, the randomized partition tree built over the bounding         *)
(* spheres, and the branch-and-bound nearest-surface query.                *)
(*                                                                         *)
(* Arithmetic is exact.  A point is a triple of integers.  The center a    *)
(* bounding sphere is given is kept as an integer numerator vector over an *)
(* integer denominator (zero where the code divides by zero), and its      *)
(* radius as the integer under the square root, so that every comparison   *)
(* the code makes is decided without rounding.                             *)
(*                                                                         *)
(* SpecSphere is one call of bounding_sphere on a triangle of a small      *)
(* grid.  SpecBuild is the construction of the tree, one step per call of  *)
(* build, from a strip of triangles whose spheres and distances are whole  *)
(* numbers.  Spec adds a call of project on the finished tree.             *)
(***************************************************************************)
EXTENDS Integers, Sequences, FiniteSets, TLC

VARIABLES
    phase,        \* position of the program
    tri,          \* bounding_sphere: the triangle passed in (A, B, C)
    sphere,       \* bounding_sphere: what the call produced
    thickness,    \* self.thickness
    triangles,    \* __init__: list of triangles
    tri_center,   \* __init__: list of bounding-sphere centers
    tri_radius,   \* __init__: list of bounding-sphere radii (+ thickness)
    stack,        \* build: pending recursive calls, innermost first
    tree,         \* build: the nodes built so far, by position in the tree
    query_in,     \* project/query: the arguments of the last call
    query_out     \* project/query: what the last call returned

vars == << phase, tri, sphere, thickness, triangles, tri_center, tri_radius,
           stack, tree, query_in, query_out >>

----------------------------------------------------------------------------
(* Bounds of the model *)

\* bounding_sphere: vertex coordinates x, y range over 0..MaxXY
MaxXY == 2
\* bounding_sphere: vertex coordinate z ranges over 0..MaxZ
MaxZ == 1
\* thickness ranges over 0..MaxThickness
MaxThickness == 1
\* the tree is built from at most MaxTri triangles
MaxTri == 4
\* the triangles of the tree are those of the strip, numbered 0..MaxCoord
MaxCoord == 3
\* project is called with perturbations of length at most MaxPerturb
MaxPerturb == 2

----------------------------------------------------------------------------
(* Vectors *)

Sub(u, v) == << u[1] - v[1], u[2] - v[2], u[3] - v[3] >>

Add(u, v) == << u[1] + v[1], u[2] + v[2], u[3] + v[3] >>

Scale(k, u) == << k * u[1], k * u[2], k * u[3] >>

\* np.dot
Dot(u, v) == u[1] * v[1] + u[2] * v[2] + u[3] * v[3]

\* np.cross
Cross(u, v) == << u[2] * v[3] - u[3] * v[2],
                  u[3] * v[1] - u[1] * v[3],
                  u[1] * v[2] - u[2] * v[1] >>

\* np.sum(u ** 2), the square of np.linalg.norm(u)
Norm2(u) == Dot(u, u)

\* np.argmax over a 3-element array: the first index holding the maximum
ArgMax3(e) ==
    IF e[1] >= e[2] /\ e[1] >= e[3] THEN 1
    ELSE IF e[2] >= e[3] THEN 2 ELSE 3

Max3(e) == e[ArgMax3(e)]

----------------------------------------------------------------------------
(* bounding_sphere *)

\* The obtuse branch with the radius set to half the longest edge.
bounding_sphere_half(t) ==
    LET A == t[1]
        B == t[2]
        C == t[3]
        A_to_B == Sub(B, A)
        A_to_C == Sub(C, A)
        B_to_C == Sub(C, B)
    IN  IF \/ Dot(A_to_B, A_to_C) <= 0
           \/ Dot(A_to_B, B_to_C) <= 0
           \/ Dot(A_to_C, B_to_C) <= 0
        THEN LET edges2 == << Norm2(A_to_B), Norm2(A_to_C), Norm2(B_to_C) >>
                 idx == ArgMax3(edges2)
             IN  [ branch  |-> "obtuse",
                   outcome |-> "returned",
                   den     |-> 2,
                   center  |-> << Add(A, B), Add(A, C), Add(B, C) >>[idx],
                   radius2 |-> edges2[idx] ]
        ELSE LET normal == Cross(A_to_B, A_to_C)
                 den == 2 * Norm2(normal)
                 center == Add(Scale(den, A),
                               Add(Scale(Norm2(A_to_B), Cross(A_to_C, normal)),
                                   Scale(Norm2(A_to_C), Cross(normal, A_to_B))))
             IN  [ branch  |-> "acute",
                   outcome |-> "returned",
                   den     |-> den,
                   center  |-> center,
                   radius2 |-> Max3(<< Norm2(Sub(Scale(den, A), center)),
                                       Norm2(Sub(Scale(den, B), center)),
                                       Norm2(Sub(Scale(den, C), center)) >>) ]

\* The returned center is center / den and the returned radius is
\* sqrt(radius2) / den.  den = 0 is the division 0.0 / 0.0 of line 137:
\* numpy returns not-a-number for it (center and radius both), with a
\* warning and no exception.
bounding_sphere(t) ==
    LET A == t[1]
        B == t[2]
        C == t[3]
        A_to_B == Sub(B, A)
        A_to_C == Sub(C, A)
        B_to_C == Sub(C, B)
    IN  IF \/ Dot(A_to_B, A_to_C) <= 0
           \/ Dot(A_to_B, B_to_C) <= 0
           \/ Dot(A_to_C, B_to_C) <= 0
        THEN \* "right or obtuse triangle"
             LET edges2 == << Norm2(A_to_B), Norm2(A_to_C), Norm2(B_to_C) >>
                 idx == ArgMax3(edges2)
             IN  [ branch  |-> "obtuse",
                   outcome |-> "returned",
                   den     |-> 2,
                   \* the mean of the two end points, over den = 2
                   center  |-> << Add(A, B), Add(A, C), Add(B, C) >>[idx],
                   \* radius = edges[idx]: (2 * edge) ^ 2 over den ^ 2
                   radius2 |-> 4 * edges2[idx] ]
        ELSE \* "acute triangle"
             LET normal == Cross(A_to_B, A_to_C)
                 den == 2 * Norm2(normal)
                 center == Add(Scale(den, A),
                               Add(Scale(Norm2(A_to_B), Cross(A_to_C, normal)),
                                   Scale(Norm2(A_to_C), Cross(normal, A_to_B))))
             IN  [ branch  |-> "acute",
                   outcome |-> "returned",
                   den     |-> den,
                   center  |-> center,
                   radius2 |-> Max3(<< Norm2(Sub(Scale(den, A), center)),
                                       Norm2(Sub(Scale(den, B), center)),
                                       Norm2(Sub(Scale(den, C), center)) >>) ]

NoSphere == [ branch |-> "none", outcome |-> "none", den |-> 1,
              center |-> << 0, 0, 0 >>, radius2 |-> 0 ]

NoTri == << << 0, 0, 0 >>, << 0, 0, 0 >>, << 0, 0, 0 >> >>

Points == { << x, y, z >> : x \in 0..MaxXY, y \in 0..MaxXY, z \in 0..MaxZ }

----------------------------------------------------------------------------
(* Specification of one pass of the constructor's loop, lines 19-25 *)

InitSphere ==
    /\ phase = "tri"
    /\ tri \in Points \X Points \X Points
    /\ sphere = NoSphere
    /\ thickness \in 0..MaxThickness
    /\ triangles = << >>
    /\ tri_center = << >>
    /\ tri_radius = << >>
    /\ stack = << >>
    /\ tree = << >>
    /\ query_in = << >>
    /\ query_out = << >>

\* center, radius = bounding_sphere(tri)
CallBoundingSphere ==
    /\ phase = "tri"
    /\ sphere' = bounding_sphere(tri)
    /\ phase' = "sphere"
    /\ UNCHANGED << tri, thickness, triangles, tri_center, tri_radius,
                    stack, tree, query_in, query_out >>

NextSphere == CallBoundingSphere

SpecSphere == InitSphere /\ [][NextSphere]_vars

----------------------------------------------------------------------------
(* The constructor, lines 10-31 *)

\* the exact square root: np.linalg.norm of a vector whose length is whole
ISqrt(n) == CHOOSE k \in 0..n : k * k = n

Norm(u) == ISqrt(Norm2(u))

\* The boundary triangles the tree is built from: a strip of triangles
\* along the x axis, triangle i having its longest edge from (2i, 0, 0) to
\* (2i + 2, 0, 0) and its apex at (2i + 1, 1, 0).  Its bounding sphere has a
\* whole center and a whole radius, so every distance build and query
\* compute is a whole number.
StripTriangle(i) == << << 2 * i, 0, 0 >>, << 2 * i + 2, 0, 0 >>, << 2 * i + 1, 1, 0 >> >>

StripTriangles == { StripTriangle(i) : i \in 0..MaxCoord }

\* The inputs of the constructor: up to MaxTri triangles of the strip,
\* listed from left to right, a triangle possibly listed more than once.
Meshes ==
    { [ k \in 1..n |-> StripTriangle(f[k]) ] :
        n \in 0..MaxTri,
        f \in { g \in [1..MaxTri -> 0..MaxCoord] : \A k \in 1..(MaxTri - 1) : g[k] <= g[k + 1] } }

\* center of a sphere as a point
CenterOf(s) == << s.center[1] \div s.den, s.center[2] \div s.den, s.center[3] \div s.den >>

\* radius of a sphere
RadiusOf(s) == ISqrt(s.radius2) \div s.den

\* lines 19-25: tri_center and tri_radius, one entry per triangle
SphereCenters(ts) == [ k \in 1..Len(ts) |-> CenterOf(bounding_sphere(ts[k])) ]

SphereRadii(ts, th) == [ k \in 1..Len(ts) |-> RadiusOf(bounding_sphere(ts[k])) + th ]

\* a pending call build(curr_triangles, ...): the position of the node it
\* will return and the current triangles, as indices into self's lists
Frame(path, idx) == [ path |-> path, idx |-> idx ]

\* thickness is the constructor's default, 0.0 (line 10)
Init ==
    /\ phase = "input"
    /\ tri = NoTri
    /\ sphere = NoSphere
    /\ thickness = 0
    /\ triangles \in Meshes
    /\ tri_center = << >>
    /\ tri_radius = << >>
    /\ stack = << >>
    /\ tree = << >>
    /\ query_in = << >>
    /\ query_out = << >>

\* __init__, lines 15-31, up to the call of build.  np.vstack of an empty
\* list raises ValueError (line 28).
Construct ==
    /\ phase = "input"
    /\ IF Len(triangles) = 0
       THEN /\ phase' = "ConstructValueError"
            /\ UNCHANGED << tri_center, tri_radius, stack >>
       ELSE /\ phase' = "build"
            /\ tri_center' = SphereCenters(triangles)
            /\ tri_radius' = SphereRadii(triangles, thickness)
            /\ stack' = << Frame(<< >>, [ k \in 1..Len(triangles) |-> k ]) >>
    /\ UNCHANGED << tri, sphere, thickness, triangles, tree, query_in, query_out >>

\* build called on its own with the three parallel arrays, line 33
CallBuild ==
    /\ phase = "input"
    /\ phase' = "build"
    /\ tri_center' = SphereCenters(triangles)
    /\ tri_radius' = SphereRadii(triangles, thickness)
    /\ stack' = << Frame(<< >>, [ k \in 1..Len(triangles) |-> k ]) >>
    /\ UNCHANGED << tri, sphere, thickness, triangles, tree, query_in, query_out >>

----------------------------------------------------------------------------
(* build, lines 33-77 *)

\* an empty bucket in the place of None
EmptyLeaf == [ kind |-> "Leaf", center |-> << 0, 0, 0 >>, radius |-> 0,
               bucket |-> << >>, curr |-> << >>, inside |-> << >>, outside |-> << >> ]

\* None, the empty tree
NoneNode == [ kind |-> "None", center |-> << 0, 0, 0 >>, radius |-> 0,
              bucket |-> << >>, curr |-> << >>, inside |-> << >>, outside |-> << >> ]

\* Leaf(curr_triangles)
Leaf(idx) == [ kind |-> "Leaf", center |-> << 0, 0, 0 >>, radius |-> 0,
               bucket |-> idx, curr |-> idx, inside |-> << >>, outside |-> << >> ]

\* Node(partition_center, partition_radius, inside_node, outside_node): the
\* children are the nodes at path \o <<"inside">> and path \o <<"outside">>;
\* curr, inside and outside record the triangles of the call and of its two
\* recursive calls
Node(c, r, idx, ins, outs) ==
    [ kind |-> "Node", center |-> c, radius |-> r,
      bucket |-> << >>, curr |-> idx, inside |-> ins, outside |-> outs ]

PermutationsOf(n) == { p \in [1..n -> 1..n] : \A i, j \in 1..n : p[i] = p[j] => i = j }

AllPermutations == [ n \in 0..MaxTri |-> PermutationsOf(n) ]

\* np.argpartition(-distances, mid): any permutation that puts at (0-based)
\* position mid an element that a sort would put there, nothing larger
\* before it and nothing smaller after it.  The order of the rest is not
\* defined by numpy.
ArgPartitions(distances, mid) ==
    LET n == Len(distances)
        kth == mid + 1
    IN  { p \in AllPermutations[n] :
            /\ \A i \in 1..(kth - 1) : 0 - distances[p[i]] <= 0 - distances[p[kth]]
            /\ \A i \in (kth + 1)..n : 0 - distances[p[i]] >= 0 - distances[p[kth]] }

\* np.nonzero(flags)[0]: the positions at which flags holds, in order
RECURSIVE NonZero(_, _)
NonZero(flags, from) ==
    IF from > Len(flags) THEN << >>
    ELSE IF flags[from] THEN << from >> \o NonZero(flags, from + 1)
         ELSE NonZero(flags, from + 1)

\* lines 41-46: distances from the partition point, chosen as the center of
\* curr triangle number pick
DistancesCenter(idx, pick) ==
    [ k \in 1..Len(idx) |-> Norm(Sub(tri_center[idx[k]], tri_center[idx[pick]])) ]

Distances(idx, pick) ==
    [ k \in 1..Len(idx) |-> DistancesCenter(idx, pick)[k] + tri_radius[idx[k]] ]

\* lines 65-68 with inside_idx = partition[mid + 1:]
InsideIdx_skip(distances_center, curr_tri_radius, partition, mid, partition_radius) ==
    LET n == Len(partition)
        inside_idx == SubSeq(partition, mid + 2, n)
        outside_idx == SubSeq(partition, 1, mid)
        both_inside_outside ==
            NonZero([ j \in 1..mid |->
                        distances_center[outside_idx[j]] - curr_tri_radius[outside_idx[j]]
                            <= partition_radius ], 1)
    IN  inside_idx \o both_inside_outside

\* lines 65-68.  Positions are 1-based here: position k is numpy's index
\* k - 1.  both_inside_outside holds positions within outside_idx, and
\* line 68 appends them to inside_idx as they are.
InsideIdx(distances_center, curr_tri_radius, partition, mid, partition_radius) ==
    LET n == Len(partition)
        inside_idx == SubSeq(partition, mid + 1, n)
        outside_idx == SubSeq(partition, 1, mid)
        both_inside_outside ==
            NonZero([ j \in 1..mid |->
                        distances_center[outside_idx[j]] - curr_tri_radius[outside_idx[j]]
                            <= partition_radius ], 1)
    IN  inside_idx \o both_inside_outside

\* lines 49-68 for one choice of the random pick and of the argpartition
Partition(idx, pick, partition) ==
    LET n == Len(idx)
        distances_center == DistancesCenter(idx, pick)
        distances == Distances(idx, pick)
        curr_tri_radius == [ k \in 1..n |-> tri_radius[idx[k]] ]
        mid == n \div 2
        partition_radius == distances[partition[mid + 1]]
        inside_idx == InsideIdx(distances_center, curr_tri_radius, partition, mid,
                                partition_radius)
        outside_idx == SubSeq(partition, 1, mid)
    IN  [ partition_center |-> tri_center[idx[pick]],
          partition_radius |-> partition_radius,
          inside_idx  |-> inside_idx,
          outside_idx |-> outside_idx,
          \* curr_triangles[inside_idx], curr_triangles[outside_idx]
          inside  |-> [ k \in 1..Len(inside_idx) |-> idx[inside_idx[k]] ],
          outside |-> [ k \in 1..Len(outside_idx) |-> idx[outside_idx[k]] ] ]

\* line 70: the attempt to partition failed
PartitionFailedNever(inside_idx, curr_triangles) == FALSE

PartitionFailed(inside_idx, curr_triangles) == Len(inside_idx) = Len(curr_triangles)

Top == Head(stack)

\* lines 34-35
BuildEmpty ==
    /\ phase = "build"
    /\ stack # << >>
    /\ Len(Top.idx) = 0
    /\ tree' = (Top.path :> NoneNode) @@ tree
    /\ stack' = Tail(stack)
    /\ phase' = IF Tail(stack) = << >> THEN "built" ELSE "build"
    /\ UNCHANGED << tri, sphere, thickness, triangles, tri_center, tri_radius,
                    query_in, query_out >>

\* lines 37-38
BuildSingle ==
    /\ phase = "build"
    /\ stack # << >>
    /\ Len(Top.idx) = 1
    /\ tree' = (Top.path :> Leaf(Top.idx)) @@ tree
    /\ stack' = Tail(stack)
    /\ phase' = IF Tail(stack) = << >> THEN "built" ELSE "build"
    /\ UNCHANGED << tri, sphere, thickness, triangles, tri_center, tri_radius,
                    query_in, query_out >>

\* lines 41-72, the partition that fails: every index ended up inside
BuildBucket ==
    /\ phase = "build"
    /\ stack # << >>
    /\ Len(Top.idx) >= 2
    /\ \E pick \in 1..Len(Top.idx) :
         \E partition \in ArgPartitions(Distances(Top.idx, pick), Len(Top.idx) \div 2) :
            LET p == Partition(Top.idx, pick, partition)
            IN  /\ PartitionFailed(p.inside_idx, Top.idx)
                /\ tree' = (Top.path :> Leaf(Top.idx)) @@ tree
    /\ stack' = Tail(stack)
    /\ phase' = IF Tail(stack) = << >> THEN "built" ELSE "build"
    /\ UNCHANGED << tri, sphere, thickness, triangles, tri_center, tri_radius,
                    query_in, query_out >>

\* lines 41-77, the partition that succeeds: the node is recorded and the
\* two recursive calls are pending, the inside one first
BuildNode ==
    /\ phase = "build"
    /\ stack # << >>
    /\ Len(Top.idx) >= 2
    /\ \E pick \in 1..Len(Top.idx) :
         \E partition \in ArgPartitions(Distances(Top.idx, pick), Len(Top.idx) \div 2) :
            LET p == Partition(Top.idx, pick, partition)
            IN  /\ ~PartitionFailed(p.inside_idx, Top.idx)
                /\ tree' = (Top.path :> Node(p.partition_center, p.partition_radius,
                                             Top.idx, p.inside, p.outside)) @@ tree
                /\ stack' = << Frame(Top.path \o << "inside" >>, p.inside),
                               Frame(Top.path \o << "outside" >>, p.outside) >>
                            \o Tail(stack)
    /\ phase' = "build"
    /\ UNCHANGED << tri, sphere, thickness, triangles, tri_center, tri_radius,
                    query_in, query_out >>

Build == BuildEmpty \/ BuildSingle \/ BuildBucket \/ BuildNode

NextBuild == Construct \/ CallBuild \/ Build

SpecBuild == Init /\ [][NextBuild]_vars

----------------------------------------------------------------------------
(* query, lines 89-118 *)

\* the None of a nearest point
None == << >>

\* nearest = (None, float("inf"))
NoNearest == [ point |-> None, dist |-> 0, inf |-> TRUE ]

Nearest(point, dist) == [ point |-> point, dist |-> dist, inf |-> FALSE ]

\* a[1] < b[1] on the distances of two results, float("inf") included
DistLess(a, b) == ~a.inf /\ (b.inf \/ a.dist < b.dist)

\* projection.project_point_to_triangle with thickness = 0: the point of
\* the triangle closest to query_point.  For a query point on the x axis
\* and a triangle of the strip (longest edge on the axis, apex above its
\* middle) that is the point of the longest edge closest to query_point.
project_point_to_triangle(query_point, t) ==
    LET lo == t[1][1]
        hi == t[2][1]
        x  == query_point[1]
    IN  << (IF x < lo THEN lo ELSE IF x > hi THEN hi ELSE x), 0, 0 >>

\* lines 94-100: the loop over the bucket, from entry k on
RECURSIVE QueryBucket(_, _, _, _)
QueryBucket(query_point, bucket, k, nearest) ==
    IF k > Len(bucket) THEN nearest
    ELSE LET proj_point == project_point_to_triangle(query_point, triangles[bucket[k]])
             proj_dist == Norm(Sub(query_point, proj_point))
             found == Nearest(proj_point, proj_dist)
         IN  QueryBucket(query_point, bucket, k + 1,
                         IF DistLess(found, nearest) THEN found ELSE nearest)

\* lines 113-116, with the comparison the other way round
Closer_le(nearest_inside, nearest_outside) ==
    IF ~DistLess(nearest_outside, nearest_inside) THEN nearest_inside ELSE nearest_outside

\* lines 113-116
Closer(nearest_inside, nearest_outside) ==
    IF DistLess(nearest_inside, nearest_outside) THEN nearest_inside ELSE nearest_outside

\* lines 104 and 106: which subtrees the query descends into
Descend(query_point, query_radius, node) ==
    LET dist == Norm(Sub(query_point, node.center))
    IN  IF dist > node.radius + query_radius THEN "outside"
        ELSE IF dist <= node.radius - query_radius THEN "inside"
        ELSE "both"

\* query(query_point, query_radius, curr_node), curr_node being the node at
\* path
RECURSIVE query(_, _, _)
query(query_point, query_radius, path) ==
    LET curr_node == tree[path]
    IN  IF curr_node.kind = "Leaf"
        THEN QueryBucket(query_point, curr_node.bucket, 1, NoNearest)
        ELSE IF curr_node.kind = "Node"
        THEN LET way == Descend(query_point, query_radius, curr_node)
             IN  IF way = "outside"
                 THEN query(query_point, query_radius, path \o << "outside" >>)
                 ELSE IF way = "inside"
                 THEN query(query_point, query_radius, path \o << "inside" >>)
                 ELSE Closer(query(query_point, query_radius, path \o << "inside" >>),
                             query(query_point, query_radius, path \o << "outside" >>))
        ELSE NoNearest

----------------------------------------------------------------------------
(* project, lines 79-87 *)

\* The batches project is called with: no point at all, or the probe
\* points (0, 0, 0), (1, 0, 0), ... along the whole strip and one past its
\* end, each displaced by the same perturbation (v, 0, 0).
NumProbes == 2 * MaxCoord + 4

Batch(n, v) ==
    [ k \in 1..n |-> [ point |-> << k - 1, 0, 0 >>, perturb |-> << v, 0, 0 >> ] ]

Batches == { Batch(n, v) : n \in { 0, NumProbes }, v \in 0..MaxPerturb }

\* the same loop, the results collected from the last point to the first
project_reversed(batch) ==
    [ k \in 1..Len(batch) |->
        query(batch[Len(batch) + 1 - k].point,
              Norm(batch[Len(batch) + 1 - k].perturb), << >>) ]

\* lines 80-85: (nearest_point, nearest_dist) of every pass of the loop
project(batch) ==
    [ k \in 1..Len(batch) |-> query(batch[k].point, Norm(batch[k].perturb), << >>) ]

\* project(x_perturb, perturb).  np.vstack of an empty list raises
\* ValueError (line 87).
Project ==
    /\ phase = "built"
    /\ \E batch \in Batches :
         /\ query_in' = batch
         /\ IF Len(batch) = 0
            THEN /\ phase' = "ProjectValueError"
                 /\ query_out' = << >>
            ELSE /\ phase' = "projected"
                 /\ query_out' = [ nearest |-> project(batch),
                                   x_proj  |-> [ k \in 1..Len(batch) |-> project(batch)[k].point ] ]
    /\ UNCHANGED << tri, sphere, thickness, triangles, tri_center, tri_radius,
                    stack, tree >>

Next == Construct \/ CallBuild \/ Build \/ Project

Spec == Init /\ [][Next]_vars

----------------------------------------------------------------------------
(* Claims about bounding_sphere, checked under SpecSphere *)

\* zero area: the three vertices are collinear or coincide
Degenerate(t) == Norm2(Cross(Sub(t[2], t[1]), Sub(t[3], t[1]))) = 0

\* squares of the lengths of the edges AB, AC, BC
Edges2(t) ==
    << Norm2(Sub(t[2], t[1])), Norm2(Sub(t[3], t[1])), Norm2(Sub(t[3], t[2])) >>

\* the largest angle is at least 90 degrees: the longest edge squared is at
\* least the sum of the other two squared
RightOrObtuse(t) ==
    LET e == Edges2(t)
    IN  2 * Max3(e) >= e[1] + e[2] + e[3]

\* twice the midpoint of the longest edge
LongestMid2(t) ==
    << Add(t[1], t[2]), Add(t[1], t[3]), Add(t[2], t[3]) >>[ArgMax3(Edges2(t))]

\* sqrt(a) + t >= sqrt(b), for integers a, b >= 0 and t >= 0
SqrtPlusGeq(a, t, b) ==
    \/ a >= b
    \/ LET rest == b - a - t * t
       IN  rest <= 0 \/ rest * rest <= 4 * t * t * a

\* the square of (den * distance) from the returned center to vertex i
VertexDist2(i) == Norm2(Sub(Scale(sphere.den, tri[i]), sphere.center))

\* C4: for every non-degenerate triangle, in either branch, the returned
\* radius is at least the distance from the returned center to each of the
\* three vertices, and so is the radius with the thickness added.
C4_VerticesInSphere ==
    (phase = "sphere" /\ ~Degenerate(tri)) =>
        \A i \in 1..3 :
            /\ sphere.radius2 >= VertexDist2(i)
            /\ SqrtPlusGeq(sphere.radius2, thickness * sphere.den, VertexDist2(i))

\* An acute triangle that went through the "right or obtuse" branch, with a
\* positive thickness: its third vertex is farther from the midpoint of the
\* longest edge than half that edge.
C4_Witness ==
    /\ phase = "sphere"
    /\ ~Degenerate(tri)
    /\ ~RightOrObtuse(tri)
    /\ sphere.branch = "obtuse"
    /\ thickness > 0
    /\ \E i \in 1..3 : 4 * VertexDist2(i) > sphere.radius2

\* C5: bounding_sphere returns the minimal enclosing sphere: for right and
\* obtuse triangles, and only for them, the midpoint of the longest edge
\* with half that edge as radius; for acute triangles the circumcenter
\* (in the triangle's plane, equidistant from the vertices) with the
\* circumradius.
C5_MinimalSphere ==
    (phase = "sphere" /\ ~Degenerate(tri)) =>
        IF RightOrObtuse(tri)
        THEN /\ sphere.branch = "obtuse"
             /\ Scale(2, sphere.center) = Scale(sphere.den, LongestMid2(tri))
             /\ 4 * sphere.radius2 = sphere.den * sphere.den * Max3(Edges2(tri))
        ELSE /\ sphere.branch = "acute"
             /\ \A i \in 1..3 : VertexDist2(i) = sphere.radius2
             /\ Dot(Sub(Scale(sphere.den, tri[1]), sphere.center),
                    Cross(Sub(tri[2], tri[1]), Sub(tri[3], tri[1]))) = 0

\* C9: for every degenerate triangle bounding_sphere fails with a
\* GeometryError instead of returning a (center, radius) result.
C9_DegenerateRaises ==
    (phase = "sphere" /\ Degenerate(tri)) => sphere.outcome = "GeometryError"

----------------------------------------------------------------------------
(* Claims about build, checked under SpecBuild *)

Range(s) == { s[k] : k \in 1..Len(s) }

\* build has returned
Built == phase \in { "built", "projected", "ProjectValueError" }

NodesOfKind(kind) == { path \in DOMAIN tree : tree[path].kind = kind }

\* the triangles (as indices into the input) held in the leaf buckets
BucketUnion == UNION { Range(tree[path].bucket) : path \in NodesOfKind("Leaf") }

\* C2: the union of the triangles held in the leaf buckets of the tree
\* returned by build is the input triangle set: every input triangle is in
\* at least one bucket, and no bucket holds anything else.
C2_BucketsAreInput ==
    Built => BucketUnion = 1..Len(triangles)

\* A tree with a partition node whose subtrees are both in place, two
\* buckets holding the same triangle.
C2_Witness ==
    /\ Built
    /\ NodesOfKind("Node") # { }
    /\ \E a, b \in NodesOfKind("Leaf") :
         a # b /\ Range(tree[a].bucket) \cap Range(tree[b].bucket) # { }

\* the current triangles of node nd whose nearest point is within the
\* partition sphere: distance(its_center, c) - its_radius <= R
NearestWithin(nd) ==
    { i \in Range(nd.curr) :
        Norm(Sub(tri_center[i], nd.center)) - tri_radius[i] <= nd.radius }

TrianglesAt(indices) == { triangles[i] : i \in indices }

\* C3: at every partition node the triangles passed to the inside child are
\* exactly the current triangles whose nearest point is within the
\* partition radius of the partition center.
C3_InsideIsNearestWithin ==
    \A path \in NodesOfKind("Node") :
        TrianglesAt(Range(tree[path].inside)) = TrianglesAt(NearestWithin(tree[path]))

\* C10: build terminates: whenever it recurses, the inside set and the
\* outside set are non-empty and smaller than the current set, so that the
\* size of a call's set plus its depth never exceeds the size of the input;
\* otherwise it returns a leaf holding all current triangles (or, for no
\* triangles at all, the empty tree).
C10_BuildTerminates ==
    /\ \A k \in 1..Len(stack) :
         /\ Len(stack[k].idx) >= 1 \/ (stack[k].path = << >> /\ triangles = << >>)
         /\ Len(stack[k].idx) + Len(stack[k].path) <= Len(triangles)
    /\ \A path \in DOMAIN tree :
         LET nd == tree[path]
         IN  /\ nd.kind = "Node" =>
                  /\ Len(nd.inside) \in 1..(Len(nd.curr) - 1)
                  /\ Len(nd.outside) \in 1..(Len(nd.curr) - 1)
                  /\ Len(nd.curr) + Len(path) <= Len(triangles)
             /\ nd.kind = "Leaf" => nd.bucket = nd.curr /\ nd.curr # << >>
             /\ nd.kind = "None" => path = << >> /\ triangles = << >>

\* build has returned a tree with a partition node below a partition node,
\* built from triangles whose bounding spheres are not all different.
C10_Witness ==
    /\ phase = "built"
    /\ \E path \in NodesOfKind("Node") : path # << >>
    /\ Cardinality(Range(triangles)) < Len(triangles)

----------------------------------------------------------------------------
(* Claims about query and project, checked under Spec *)

Min(S) == CHOOSE d \in S : \A e \in S : d <= e

\* the linear scan: the least distance from query_point to its projection
\* on any of the input triangles
BruteForce(query_point) ==
    Min({ Norm(Sub(query_point, project_point_to_triangle(query_point, triangles[i]))) :
            i \in 1..Len(triangles) })

Projected == phase = "projected"

\* the arguments of the k-th call of query made by project
QueryPoint(k) == query_in[k].point

QueryRadius(k) == Norm(query_in[k].perturb)

\* C1: for every tree built from a non-empty triangle set, every query
\* point and every query radius that is at least the true minimum distance,
\* query returns the minimum over all input triangles of the distance to
\* the projection, as a linear scan does.
C1_QueryIsBruteForce ==
    (Projected /\ triangles # << >>) =>
        \A k \in 1..Len(query_in) :
            QueryRadius(k) >= BruteForce(QueryPoint(k)) =>
                /\ ~query_out.nearest[k].inf
                /\ query_out.nearest[k].dist = BruteForce(QueryPoint(k))

\* project has returned or raised, on a tree built from triangles
ProjectEnded == phase \in { "projected", "ProjectValueError" } /\ triangles # << >>

\* one output per input, in the order of the inputs, none of them None
OnePointPerInput ==
    /\ Projected
    /\ Len(query_out.x_proj) = Len(query_in)
    /\ \A k \in 1..Len(query_in) :
         /\ query_out.x_proj[k] = query(QueryPoint(k), QueryRadius(k), << >>).point
         /\ query_out.x_proj[k] # None

\* C6 as claimed: for a tree built from at least one triangle and a batch
\* of n points, project returns n points, the i-th the point query returns
\* for the i-th input, none of them None.
C6_OnePointPerInput ==
    ProjectEnded => OnePointPerInput

\* C6 as amended: the same for a batch of at least one point; for the empty
\* batch project raises ValueError.
C6_OnePointPerInputOfNonEmptyBatch ==
    ProjectEnded =>
        IF Len(query_in) = 0 THEN phase = "ProjectValueError" ELSE OnePointPerInput

\* project has returned from a tree with a partition node, and not all the
\* points it returned are the same
C6_Witness ==
    /\ Projected
    /\ tree[<< >>].kind = "Node"
    /\ Len(query_in) >= 2
    /\ \E j, k \in 1..Len(query_in) : query_out.x_proj[j] # query_out.x_proj[k]

\* what the k-th call of query returned for the subtree at path
Returned(k, path) ==
    IF path = << >> THEN query_out.nearest[k]
    ELSE query(QueryPoint(k), QueryRadius(k), path)

\* the nodes at which the k-th call of query searched both subtrees
Visited(k, path) ==
    \A j \in 1..Len(path) :
        LET way == Descend(QueryPoint(k), QueryRadius(k), tree[SubSeq(path, 1, j - 1)])
        IN  way = "both" \/ way = path[j]

SearchedBoth(k) ==
    { path \in NodesOfKind("Node") :
        /\ Visited(k, path)
        /\ Descend(QueryPoint(k), QueryRadius(k), tree[path]) = "both" }

InsideResult(k, path) == Returned(k, path \o << "inside" >>)

OutsideResult(k, path) == Returned(k, path \o << "outside" >>)

Tie(a, b) == ~DistLess(a, b) /\ ~DistLess(b, a)

\* C7 as claimed: where query searches both subtrees the result with the
\* strictly smaller distance is returned, and the inside result when the
\* two distances are equal.
C7_TieReturnsInside ==
    Projected =>
        \A k \in 1..Len(query_in) : \A path \in SearchedBoth(k) :
            LET a == InsideResult(k, path)
                b == OutsideResult(k, path)
            IN  /\ DistLess(a, b) => Returned(k, path) = a
                /\ DistLess(b, a) => Returned(k, path) = b
                /\ Tie(a, b) => Returned(k, path) = a

\* C7 as amended: the result with the strictly smaller distance is
\* returned, and the outside result when the two distances are equal.
C7_TieReturnsOutside ==
    Projected =>
        \A k \in 1..Len(query_in) : \A path \in SearchedBoth(k) :
            LET a == InsideResult(k, path)
                b == OutsideResult(k, path)
            IN  /\ DistLess(a, b) => Returned(k, path) = a
                /\ DistLess(b, a) => Returned(k, path) = b
                /\ Tie(a, b) => Returned(k, path) = b

\* a query that searched both subtrees of the root and found two different
\* points at the same distance
C7_Witness ==
    /\ Projected
    /\ \E k \in 1..Len(query_in) :
         /\ << >> \in SearchedBoth(k)
         /\ Tie(InsideResult(k, << >>), OutsideResult(k, << >>))
         /\ InsideResult(k, << >>).point # OutsideResult(k, << >>).point

\* C8: build on zero triangles returns the empty tree, and query on the
\* empty tree returns (None, +infinity) for every query point and radius.
C8_EmptyTree ==
    (Built /\ triangles = << >>) =>
        /\ DOMAIN tree = { << >> }
        /\ tree[<< >>].kind = "None"
        /\ phase = "projected" =>
             \A k \in 1..Len(query_in) :
                 /\ query_out.nearest[k].point = None
                 /\ query_out.nearest[k].inf
                 /\ query_out.x_proj[k] = None

\* project has queried the empty tree with a positive radius
C8_Witness ==
    /\ Projected
    /\ triangles = << >>
    /\ \E k \in 1..Len(query_in) : QueryRadius(k) > 0

====
